---------------------------- MODULE Spec2Model ----------------------------
(***************************************************************************)
(* Model of bomsort.py: BOM ingestion, part aggregation                    *)
(* (create_component_list), the splitter / distributor of the feeder list  *)
(* and the feeder list optimizer (optimize_part_list).                     *)
(*                                                                         *)
(* Python lists are sequences; the code's 0-based indices are kept and     *)
(* every access goes through At / Put.  A text line is the sequence of its *)
(* whitespace separated tokens; a designator token such as "C10" is the    *)
(* pair <<"C", 10>>, every other token is a string.                        *)
(***************************************************************************)
EXTENDS Integers, Sequences, FiniteSets, TLC

VARIABLES
  file,       \* the lines of the input file named by sys.argv[1]
  fileOpens,  \* whether open(filename, "r") succeeds
  bomOpt,     \* parsed.bom given (-b)
  sortedOpt,  \* parsed.sorted (-s)
  partsOpt,   \* parsed.parts given (-p)
  feederOpt,  \* parsed.feederlist given (-f)
  pc,         \* position of main()
  ln,         \* number of lines of the file already consumed by "for line in f"
  v,          \* the main BOM
  errPrinted, \* the except branch has printed "Could not open file ..."
  outBom,     \* the placement CSV
  outParts,   \* the inventory CSV
  outFeeder,  \* the feeder list CSV
  counted,    \* counted_parts of the running create_component_list call
  ci,         \* number of parts of bomlist that call has consumed
  col,        \* col of the feeder list stage
  cnt,        \* cnt of the feeder list stage
  nsplit,     \* number of entries of col the splitter loop has visited
  adders,     \* adders of the splitter
  fls,        \* the feeder list (fls), operated on in place by the optimizer
  i,          \* loop variable of optimize_part_list
  updated     \* updated of optimize_part_list

vars == <<file, fileOpens, bomOpt, sortedOpt, partsOpt, feederOpt, pc, ln, v,
          errPrinted, outBom, outParts, outFeeder, counted, ci, col, cnt,
          nsplit, adders, fls, i, updated>>

inputs == <<file, fileOpens, bomOpt, sortedOpt, partsOpt, feederOpt>>

-----------------------------------------------------------------------------
(* Bounds of the checked inputs *)

MaxLines == 4   \* longest file built freely from the lines of Alphabet
MaxTypes == 3   \* most part types of a file built from a quantity vector
MaxQty   == 5   \* largest quantity in such a quantity vector

-----------------------------------------------------------------------------
(* Indexes into BOM and part entries *)

BOM_DES == 0
BOM_X   == 1
BOM_Y   == 2
BOM_A   == 3
BOM_CMB == 4
BOM_VAL == 4
BOM_PAC == 5

PART_CMB == 4
PART_QTY == 5
PART_FDR == 6

\* l[k] of a Python list
At(l, k) == l[k + 1]

\* l[k] = x on a Python list
Put(l, k, x) == [l EXCEPT ![k + 1] = x]

\* range(n)
Range(n) == 0 .. (n - 1)

-----------------------------------------------------------------------------
(* Ingestion *)

\* line.startswith("TP") or line.startswith("FID"), on the designator prefix
StartsWithTPorFID(line) ==
  /\ Len(line) > 0
  /\ line[1][1] \in {"TP", "FID"}

\* str.replace(",", ".") on one token
ReplaceComma(tok) ==
  CASE tok = "0,1uF" -> "0.1uF"
    [] tok = "4,7k"  -> "4.7k"
    [] OTHER         -> tok

\* line.replace(",", ".").strip().split(): the designator holds no comma
Tokens(line) ==
  [k \in 1..Len(line) |-> IF k = 1 THEN line[k] ELSE ReplaceComma(line[k])]

\* ml[BOM_VAL] + "|" + ml[BOM_PAC]
Combine(val, pac) == val \o "|" \o pac

\* the entry nl built from the tokens ml of one line
BomEntry(ml) ==
  <<At(ml, BOM_DES), At(ml, BOM_X), At(ml, BOM_Y), At(ml, BOM_A),
    Combine(At(ml, BOM_VAL), At(ml, BOM_PAC))>>

\* reading ml[BOM_DES] .. ml[BOM_PAC] raises IndexError
RaisesIndexError(ml) == Len(ml) <= BOM_PAC


-----------------------------------------------------------------------------
(* Sorting *)

\* s < t for two sequences of numbers, compared like Python strings or tuples
LexLess(s, t) ==
  \E k \in 1..(Len(s) + 1) :
    /\ k <= Len(t)
    /\ \A m \in 1..(k - 1) : s[m] = t[m]
    /\ (k = Len(s) + 1 \/ s[k] < t[k])

\* sorted(seq, key=...): the stable sort of seq, keys[j] the key of seq[j]
SortBy(seq, keys) ==
  LET n == Len(seq)
      Pos(j) == Cardinality({k \in 1..n :
                   \/ LexLess(keys[k], keys[j])
                   \/ (~LexLess(keys[j], keys[k]) /\ k < j)})
  IN [r \in 1..n |-> seq[CHOOSE j \in 1..n : Pos(j) = r - 1]]

\* the decimal digits of n
RECURSIVE Digits(_)
Digits(n) == IF n < 10 THEN <<n>> ELSE Append(Digits(n \div 10), n % 10)

\* the rank of a designator prefix in string order
PrefixOrd(p) ==
  CASE p = "C"   -> 1
    [] p = "FID" -> 2
    [] p = "R"   -> 3
    [] p = "TP"  -> 4
    [] p = "U"   -> 5

\* the designator as a string: the key of itemgetter(BOM_DES)
StrKey(des) == <<PrefixOrd(des[1])>> \o Digits(des[2])

\* the designator split in text and number: the key natsorted compares
NatKey(des) == <<PrefixOrd(des[1]), des[2]>>

\* natsorted(v, key=lambda bom: bom[BOM_DES])
NatSorted(bomlist) ==
  SortBy(bomlist, [j \in 1..Len(bomlist) |-> NatKey(At(bomlist[j], BOM_DES))])

\* sorted(vs, key=itemgetter(BOM_DES), reverse=False)
SortedByDes(parts) ==
  SortBy(parts, [j \in 1..Len(parts) |-> StrKey(At(parts[j], BOM_DES))])

\* sorted(col, key=itemgetter(PART_QTY), reverse=True): equal keys keep
\* their order
SortedByQtyDesc(parts) ==
  SortBy(parts, [j \in 1..Len(parts) |-> <<0 - At(parts[j], PART_QTY)>>])

\* sorted(fl, key=itemgetter(PART_FDR))
SortedByFdr(parts) ==
  SortBy(parts, [j \in 1..Len(parts) |-> <<At(parts[j], PART_FDR)>>])

-----------------------------------------------------------------------------
(* create_component_list: one iteration of "for part in bomlist" *)

\* the indices of the counted parts whose PART_CMB equals the part's BOM_CMB
Matching(cparts, part) ==
  {k \in Range(Len(cparts)) : At(At(cparts, k), PART_CMB) = At(part, BOM_CMB)}

\* the first of them: the inner loop breaks there
FirstMatching(cparts, part) ==
  CHOOSE k \in Matching(cparts, part) :
    \A m \in Matching(cparts, part) : k <= m

\* AddPart with insert_flag never cleared: a counted part is appended again
AddPartKeepsFlag(cparts, part) ==
  IF Matching(cparts, part) # {}
    THEN LET k  == FirstMatching(cparts, part)
             cp == At(cparts, k)
         IN Append(Put(cparts, k, Put(cp, PART_QTY, At(cp, PART_QTY) + 1)),
                   Append(part, 1))
    ELSE Append(cparts, Append(part, 1))

\* counted_parts after the iteration for part
AddPart(cparts, part) ==
  IF Matching(cparts, part) # {}
    THEN LET k  == FirstMatching(cparts, part)
             cp == At(cparts, k)
         IN Put(cparts, k, Put(cp, PART_QTY, At(cp, PART_QTY) + 1))
    ELSE Append(cparts, Append(part, 1))

-----------------------------------------------------------------------------
(* Feeder list stage *)

\* Feeder Distribution table
l1_ptrn ==
  <<19, 18, 20, 17, 21, 16, 22, 15, 23, 14, 24, 13, 25, 12, 26, 11, 27, 10, 28,
    9, 29, 8, 30, 7, 31, 6, 32, 5, 33, 4, 34, 3, 35, 2, 36, 1, 37, 0>>

\* cnt: the number of parts to process
CntOf(parts) ==
  IF Len(parts) > Len(l1_ptrn) THEN Len(l1_ptrn) ELSE Len(parts)

\* OverRepresented with >= for >
OverRepresentedOrEqual(cmp, n) == 2 * At(cmp, PART_QTY) >= n

\* OverRepresented against cnt, not half of it
OverRepresentedWhole(cmp, n) == At(cmp, PART_QTY) > n

\* cmp[PART_QTY] > cnt / 2, a float division
OverRepresented(cmp, n) == 2 * At(cmp, PART_QTY) > n

\* int(cmp[PART_QTY] / 2)
HalfQty(cmp) == At(cmp, PART_QTY) \div 2

\* cmp after the splitter has halved its quantity
SplitKept(cmp) == Put(cmp, PART_QTY, HalfQty(cmp))

\* item: the copy of cmp added for the rest of the quantity
SplitAdded(cmp) == Put(cmp, PART_QTY, At(cmp, PART_QTY) - HalfQty(cmp))

\* fl: the first n entries of cl, each with its feeder number appended
Distribute(cl, n) ==
  [k \in 1..n |-> Append(At(cl, k - 1), At(l1_ptrn, k - 1))]

\* fls, from col with the adders appended
FeederList(parts, n) ==
  SortedByFdr(Distribute(SortedByQtyDesc(parts), n))

\* the row written for an entry of fls: Feeder, Description|Package, Count
FeederRow(entry) ==
  <<At(entry, PART_FDR) + 1, At(entry, PART_CMB), At(entry, PART_QTY)>>

\* the rows written for the inventory: Part, Description|Package, Count
PartsRows(cl) ==
  [k \in 1..Len(cl) |-> <<k, At(cl[k], 4), At(cl[k], PART_QTY)>>]

-----------------------------------------------------------------------------
(* optimize_part_list *)

\* bomlist[i][4] == bomlist[i+1][4]
Collision(bomlist, k) == At(At(bomlist, k), 4) = At(At(bomlist, k + 1), 4)

\* the two positions the branch taken for a collision at k exchanges
SwapPos(k) ==
  IF k <= 17
    THEN IF k = 0  THEN <<k + 2, k + 1>> ELSE <<k - 1, k>>
    ELSE IF k = 36 THEN <<k - 1, k>>     ELSE <<k + 2, k + 1>>

\* tmp = bomlist[a] raises IndexError: a is the first position read
SwapRaises(bomlist, k) == SwapPos(k)[1] \notin Range(Len(bomlist))

\* Exchange without tmp: bomlist[a] = bomlist[b]; bomlist[b] = bomlist[a]
ExchangeNoTmp(bomlist, a, b) == Put(bomlist, a, At(bomlist, b))

\* tmp = bomlist[a]; bomlist[a] = bomlist[b]; bomlist[b] = tmp
Exchange(bomlist, a, b) == Put(Put(bomlist, a, At(bomlist, b)), b, At(bomlist, a))

-----------------------------------------------------------------------------
(* The checked inputs *)

\* the lines the small files are built from
Alphabet ==
  { << <<"C", 10>>, "1", "2", "0", "100n", "0402" >>,
    << <<"C", 2>>, "3", "4", "90", "100n", "0402" >>,
    << <<"R", 1>>, "5", "6", "0", "0,1uF", "0603" >>,
    << <<"TP", 1>>, "7", "8", "0", "TP", "PAD" >>,
    << <<"R", 7>>, "9", "9" >> }

\* every file of at most n lines of Alphabet
RECURSIVE FilesUpTo(_)
FilesUpTo(n) ==
  IF n = 0 THEN {<<>>}
  ELSE LET shorter == FilesUpTo(n - 1)
       IN shorter \cup {Append(f, l) : f \in shorter, l \in Alphabet}

\* the k-th line of a generated file, for a part of type t
TypeLine(t, k) ==
  << <<"U", k>>, "0", "0", "0", "v" \o ToString(t), "0402" >>

\* the number of lines of the first k types of quantity vector qs
RECURSIVE LinesBefore(_, _)
LinesBefore(qs, k) == IF k = 0 THEN 0 ELSE LinesBefore(qs, k - 1) + qs[k]

\* the file with qs[t] lines of type t, type after type
FileOfQty(qs) ==
  [k \in 1..LinesBefore(qs, Len(qs)) |->
     TypeLine(CHOOSE t \in 1..Len(qs) :
                LinesBefore(qs, t - 1) < k /\ k <= LinesBefore(qs, t), k)]

\* every quantity vector of 1..MaxTypes types, each of 1..MaxQty pieces
QtyVectors ==
  UNION {[1..n -> 1..MaxQty] : n \in 1..MaxTypes}

\* quantities 10, 10, 5, 2
QtyExample == <<10, 10, 5, 2>>

\* 39 types of 20 pieces: one type more than the table has feeders
QtyOverfull == [t \in 1..39 |-> 20]

\* 38 types whose halves collide at list positions 17 and 19
QtyMiddle == [t \in 1..38 |-> IF t = 1 THEN 40 ELSE IF t = 2 THEN 41 ELSE 1]

\* 38 types whose halves collide at list positions 0 and 36
QtyEnds ==
  [t \in 1..38 |-> IF t <= 17 THEN 22 ELSE IF t = 18 THEN 20
                   ELSE IF t = 19 THEN 21 ELSE 1]

\* 20 types whose halves collide at the last two of 20 list positions
QtyShort ==
  [t \in 1..20 |-> IF t <= 8 THEN 22 ELSE IF t = 9 THEN 20
                   ELSE IF t = 10 THEN 21 ELSE 1]

BigVectors == {QtyExample, QtyOverfull, QtyMiddle, QtyEnds, QtyShort}

-----------------------------------------------------------------------------
(* main *)

\* an output file that has not been opened for writing
NotWritten == [written |-> FALSE, rows |-> <<>>]

\* an output file after its rows were written
Written(rows) == [written |-> TRUE, rows |-> rows]

\* what the run starts from, for a given command line and input file
Start ==
  /\ pc = "open"
  /\ ln = 0
  /\ v = <<>>
  /\ errPrinted = FALSE
  /\ outBom = NotWritten
  /\ outParts = NotWritten
  /\ outFeeder = NotWritten
  /\ counted = <<>>
  /\ ci = 0
  /\ col = <<>>
  /\ cnt = 0
  /\ nsplit = 0
  /\ adders = <<>>
  /\ fls = <<>>
  /\ i = 0
  /\ updated = FALSE

Init ==
  /\ Start
  /\ \/ /\ file \in FilesUpTo(MaxLines)
        /\ fileOpens = TRUE
        /\ bomOpt \in BOOLEAN
        /\ sortedOpt \in BOOLEAN
        /\ partsOpt \in BOOLEAN
        /\ feederOpt \in BOOLEAN
     \/ /\ file = <<>>
        /\ fileOpens = FALSE
        /\ bomOpt \in BOOLEAN
        /\ sortedOpt = FALSE
        /\ partsOpt \in BOOLEAN
        /\ feederOpt \in BOOLEAN
     \/ /\ file \in {FileOfQty(qs) : qs \in QtyVectors \cup BigVectors}
        /\ fileOpens = TRUE
        /\ bomOpt = FALSE
        /\ sortedOpt = FALSE
        /\ partsOpt = FALSE
        /\ feederOpt = TRUE

\* f = open(filename, "r") succeeds
OpenFile ==
  /\ pc = "open"
  /\ fileOpens
  /\ pc' = "read"
  /\ UNCHANGED <<inputs, ln, v, errPrinted, outBom, outParts, outFeeder,
                 counted, ci, col, cnt, nsplit, adders, fls, i, updated>>

\* open raises: the except branch prints and main goes on
OpenFails ==
  /\ pc = "open"
  /\ ~fileOpens
  /\ errPrinted' = TRUE
  /\ pc' = "bom"
  /\ UNCHANGED <<inputs, ln, v, outBom, outParts, outFeeder,
                 counted, ci, col, cnt, nsplit, adders, fls, i, updated>>

\* a line that starts with TP or FID is not included
ReadFiltered ==
  /\ pc = "read"
  /\ ln < Len(file)
  /\ StartsWithTPorFID(At(file, ln))
  /\ ln' = ln + 1
  /\ UNCHANGED <<inputs, pc, v, errPrinted, outBom, outParts, outFeeder,
                 counted, ci, col, cnt, nsplit, adders, fls, i, updated>>

\* a line with all six fields is added to the main BOM
ReadRecord ==
  /\ pc = "read"
  /\ ln < Len(file)
  /\ ~StartsWithTPorFID(At(file, ln))
  /\ ~RaisesIndexError(Tokens(At(file, ln)))
  /\ v' = Append(v, BomEntry(Tokens(At(file, ln))))
  /\ ln' = ln + 1
  /\ UNCHANGED <<inputs, pc, errPrinted, outBom, outParts, outFeeder,
                 counted, ci, col, cnt, nsplit, adders, fls, i, updated>>

\* a line with fewer fields raises IndexError: the except branch prints and
\* main goes on with the entries read so far
ReadMalformed ==
  /\ pc = "read"
  /\ ln < Len(file)
  /\ ~StartsWithTPorFID(At(file, ln))
  /\ RaisesIndexError(Tokens(At(file, ln)))
  /\ errPrinted' = TRUE
  /\ pc' = "bom"
  /\ UNCHANGED <<inputs, ln, v, outBom, outParts, outFeeder,
                 counted, ci, col, cnt, nsplit, adders, fls, i, updated>>

\* the end of the file: f.close()
CloseFile ==
  /\ pc = "read"
  /\ ln = Len(file)
  /\ pc' = "bom"
  /\ UNCHANGED <<inputs, ln, v, errPrinted, outBom, outParts, outFeeder,
                 counted, ci, col, cnt, nsplit, adders, fls, i, updated>>

\* if parsed.bom: the placement file is written from v
GenerateBom ==
  /\ pc = "bom"
  /\ bomOpt
  /\ outBom' = Written(IF sortedOpt THEN NatSorted(v) ELSE v)
  /\ pc' = "parts"
  /\ UNCHANGED <<inputs, ln, v, errPrinted, outParts, outFeeder,
                 counted, ci, col, cnt, nsplit, adders, fls, i, updated>>

SkipBom ==
  /\ pc = "bom"
  /\ ~bomOpt
  /\ pc' = "parts"
  /\ UNCHANGED <<inputs, ln, v, errPrinted, outBom, outParts, outFeeder,
                 counted, ci, col, cnt, nsplit, adders, fls, i, updated>>

\* if parsed.parts: vs = create_component_list(v) is called
CallForParts ==
  /\ pc = "parts"
  /\ partsOpt
  /\ counted' = <<>>
  /\ ci' = 0
  /\ pc' = "count_parts"
  /\ UNCHANGED <<inputs, ln, v, errPrinted, outBom, outParts, outFeeder,
                 col, cnt, nsplit, adders, fls, i, updated>>

SkipParts ==
  /\ pc = "parts"
  /\ ~partsOpt
  /\ pc' = "feeder"
  /\ UNCHANGED <<inputs, ln, v, errPrinted, outBom, outParts, outFeeder,
                 counted, ci, col, cnt, nsplit, adders, fls, i, updated>>

\* create_component_list: one iteration of "for part in bomlist"
CountPart ==
  /\ pc \in {"count_parts", "count_feeder"}
  /\ ci < Len(v)
  /\ counted' = AddPart(counted, At(v, ci))
  /\ ci' = ci + 1
  /\ UNCHANGED <<inputs, pc, ln, v, errPrinted, outBom, outParts, outFeeder,
                 col, cnt, nsplit, adders, fls, i, updated>>

\* create_component_list returns; the inventory file is written
WriteParts ==
  /\ pc = "count_parts"
  /\ ci = Len(v)
  /\ outParts' = Written(PartsRows(SortedByDes(counted)))
  /\ pc' = "feeder"
  /\ UNCHANGED <<inputs, ln, v, errPrinted, outBom, outFeeder,
                 counted, ci, col, cnt, nsplit, adders, fls, i, updated>>

\* if parsed.feederlist: col = create_component_list(v) is called
CallForFeeders ==
  /\ pc = "feeder"
  /\ feederOpt
  /\ counted' = <<>>
  /\ ci' = 0
  /\ pc' = "count_feeder"
  /\ UNCHANGED <<inputs, ln, v, errPrinted, outBom, outParts, outFeeder,
                 col, cnt, nsplit, adders, fls, i, updated>>

SkipFeeders ==
  /\ pc = "feeder"
  /\ ~feederOpt
  /\ pc' = "done"
  /\ UNCHANGED <<inputs, ln, v, errPrinted, outBom, outParts, outFeeder,
                 counted, ci, col, cnt, nsplit, adders, fls, i, updated>>

\* create_component_list returns col; cnt is determined; adders = []
SetCnt ==
  /\ pc = "count_feeder"
  /\ ci = Len(v)
  /\ col' = counted
  /\ cnt' = CntOf(counted)
  /\ adders' = <<>>
  /\ nsplit' = 0
  /\ pc' = "split"
  /\ UNCHANGED <<inputs, ln, v, errPrinted, outBom, outParts, outFeeder,
                 counted, ci, fls, i, updated>>

\* "for cmp in col": an over represented part is split
SplitPart ==
  /\ pc = "split"
  /\ nsplit < Len(col)
  /\ OverRepresented(At(col, nsplit), cnt)
  /\ col' = Put(col, nsplit, SplitKept(At(col, nsplit)))
  /\ adders' = Append(adders, SplitAdded(At(col, nsplit)))
  /\ nsplit' = nsplit + 1
  /\ UNCHANGED <<inputs, pc, ln, v, errPrinted, outBom, outParts, outFeeder,
                 counted, ci, cnt, fls, i, updated>>

\* "for cmp in col": any other part is left as it is
KeepPart ==
  /\ pc = "split"
  /\ nsplit < Len(col)
  /\ ~OverRepresented(At(col, nsplit), cnt)
  /\ nsplit' = nsplit + 1
  /\ UNCHANGED <<inputs, pc, ln, v, errPrinted, outBom, outParts, outFeeder,
                 counted, ci, col, cnt, adders, fls, i, updated>>

\* the adders are appended to col; cl, fl and fls are built; the first call
\* of optimize_part_list begins
DistributeParts ==
  /\ pc = "split"
  /\ nsplit = Len(col)
  /\ col' = col \o adders
  /\ fls' = FeederList(col \o adders, cnt)
  /\ i' = 0
  /\ updated' = FALSE
  /\ pc' = "optimize"
  /\ UNCHANGED <<inputs, ln, v, errPrinted, outBom, outParts, outFeeder,
                 counted, ci, cnt, nsplit, adders>>

\* "for i in range(cnt-1)": no collision at i
OptimizeSkip ==
  /\ pc = "optimize"
  /\ i \in Range(cnt - 1)
  /\ ~Collision(fls, i)
  /\ i' = i + 1
  /\ UNCHANGED <<inputs, pc, ln, v, errPrinted, outBom, outParts, outFeeder,
                 counted, ci, col, cnt, nsplit, adders, fls, updated>>

\* "for i in range(cnt-1)": a collision at i
CollisionAt ==
  /\ pc = "optimize"
  /\ i \in Range(cnt - 1)
  /\ Collision(fls, i)

\* updated = True and the entries at a and b are exchanged; bomlist[a] is
\* read first
ExchangeEntries(a, b) ==
  /\ a \in Range(Len(fls))
  /\ updated' = TRUE
  /\ fls' = Exchange(fls, a, b)
  /\ i' = i + 1
  /\ UNCHANGED <<inputs, pc, ln, v, errPrinted, outBom, outParts, outFeeder,
                 counted, ci, col, cnt, nsplit, adders>>

\* i == 0: [i+1] is exchanged with [i+2]
OptimizeSwapFirst ==
  /\ CollisionAt
  /\ i <= 17
  /\ i = 0
  /\ ExchangeEntries(i + 2, i + 1)

\* the lower part of the table: [i] is exchanged with [i-1]
OptimizeSwapLower ==
  /\ CollisionAt
  /\ i <= 17
  /\ i # 0
  /\ ExchangeEntries(i - 1, i)

\* i == 36: [i] is exchanged with [i-1]
OptimizeSwapLast ==
  /\ CollisionAt
  /\ ~(i <= 17)
  /\ i = 36
  /\ ExchangeEntries(i - 1, i)

\* the upper part of the table: [i+1] is exchanged with [i+2]
OptimizeSwapUpper ==
  /\ CollisionAt
  /\ ~(i <= 17)
  /\ i # 36
  /\ ExchangeEntries(i + 2, i + 1)

\* a collision at i whose exchange reads past the list: IndexError is
\* raised and nothing catches it
OptimizeRaises ==
  /\ CollisionAt
  /\ SwapRaises(fls, i)
  /\ updated' = TRUE
  /\ pc' = "crashed"
  /\ UNCHANGED <<inputs, ln, v, errPrinted, outBom, outParts, outFeeder,
                 counted, ci, col, cnt, nsplit, adders, fls, i>>

\* optimize_part_list returns True: "while" calls it again
OptimizeAgain ==
  /\ pc = "optimize"
  /\ i \notin Range(cnt - 1)
  /\ updated
  /\ i' = 0
  /\ updated' = FALSE
  /\ UNCHANGED <<inputs, pc, ln, v, errPrinted, outBom, outParts, outFeeder,
                 counted, ci, col, cnt, nsplit, adders, fls>>

\* optimize_part_list returns False: the feeder list file is written
WriteFeeders ==
  /\ pc = "optimize"
  /\ i \notin Range(cnt - 1)
  /\ ~updated
  /\ outFeeder' = Written([k \in 1..Len(fls) |-> FeederRow(fls[k])])
  /\ pc' = "done"
  /\ UNCHANGED <<inputs, ln, v, errPrinted, outBom, outParts,
                 counted, ci, col, cnt, nsplit, adders, fls, i, updated>>

Next ==
  \/ OpenFile
  \/ OpenFails
  \/ ReadFiltered
  \/ ReadRecord
  \/ ReadMalformed
  \/ CloseFile
  \/ GenerateBom
  \/ SkipBom
  \/ CallForParts
  \/ SkipParts
  \/ CountPart
  \/ WriteParts
  \/ CallForFeeders
  \/ SkipFeeders
  \/ SetCnt
  \/ SplitPart
  \/ KeepPart
  \/ DistributeParts
  \/ OptimizeSkip
  \/ OptimizeSwapFirst
  \/ OptimizeSwapLower
  \/ OptimizeSwapLast
  \/ OptimizeSwapUpper
  \/ OptimizeRaises
  \/ OptimizeAgain
  \/ WriteFeeders

Spec == Init /\ [][Next]_vars

-----------------------------------------------------------------------------
(* Notions the properties are stated with *)

\* the typeKey and the quantity of a part entry
KeyOf(entry) == At(entry, PART_CMB)
QtyOf(entry) == At(entry, PART_QTY)
SlotOf(entry) == At(entry, PART_FDR)

\* the sum of the quantities of the first n entries of parts
RECURSIVE SumQty(_, _)
SumQty(parts, n) == IF n = 0 THEN 0 ELSE SumQty(parts, n - 1) + QtyOf(parts[n])

\* the lines of the file that are not filtered
Unfiltered == {k \in 1..Len(file) : ~StartsWithTPorFID(file[k])}

\* create_component_list is about to return
Returning == pc \in {"count_parts", "count_feeder"} /\ ci = Len(v)

\* the splitter loop has visited every entry of col
SplitDone == pc = "split" /\ nsplit = Len(col)

\* the distributor has run
Distributed == pc \in {"optimize", "crashed"} \/ (pc = "done" /\ feederOpt)

\* the optimizer has just finished a pass without a swap
ZeroSwapPass == pc = "optimize" /\ i \notin Range(cnt - 1) /\ ~updated

\* the aggregated parts before the splitter, in first-seen order: counted
\* keeps what create_component_list returned to the feeder list stage
QtyBefore(k) == QtyOf(counted[k])

\* the entries the splitter added for the k-th aggregated part
AddedFor(k) == {a \in 1..Len(adders) : KeyOf(adders[a]) = KeyOf(counted[k])}

\* the k-th aggregated part is among the top cnt parts by descending
\* quantity, ties in first-seen order
IsCandidate(k) ==
  Cardinality({m \in 1..Len(counted) :
     \/ QtyBefore(m) > QtyBefore(k)
     \/ (QtyBefore(m) = QtyBefore(k) /\ m < k)}) < cnt

\* the run of the file with quantities 10, 10, 5, 2 has finished
ExampleDone ==
  /\ pc = "done"
  /\ feederOpt
  /\ Len(counted) = 4
  /\ [k \in 1..4 |-> QtyBefore(k)] = QtyExample

-----------------------------------------------------------------------------
(* Properties *)

\* C1: when create_component_list returns, its result holds exactly one
\* entry per distinct typeKey of the records it was given, and the
\* quantities of the entries add up to the number of these records, which
\* is the number of unfiltered lines of the file when ingestion did not fail.
C1_Conservation ==
  Returning =>
    /\ \A a, b \in 1..Len(counted) :
         KeyOf(counted[a]) = KeyOf(counted[b]) => a = b
    /\ {KeyOf(counted[a]) : a \in 1..Len(counted)}
         = {At(v[k], BOM_CMB) : k \in 1..Len(v)}
    /\ SumQty(counted, Len(counted)) = Len(v)
    /\ ~errPrinted => Len(v) = Cardinality(Unfiltered)

\* C1 witness: a call returns two part types for three records, one line of
\* the file having been filtered
C1_Witness ==
  /\ Returning
  /\ Len(v) = 3
  /\ Len(counted) = 2
  /\ Len(file) > Len(v)
  /\ ~errPrinted

\* C2: once the distributor has run, every entry of the feeder list carries
\* a slot in 0..37 and no two entries carry the same slot, also during and
\* after the optimizer passes.
C2_Uniqueness ==
  Distributed =>
    /\ Len(fls) = cnt
    /\ \A a \in 1..Len(fls) : SlotOf(fls[a]) \in 0..37
    /\ \A a, b \in 1..Len(fls) : SlotOf(fls[a]) = SlotOf(fls[b]) => a = b

\* C2 witness: a full table of 38 entries that an optimizer pass has
\* reordered is written
C2_Witness ==
  /\ pc = "done"
  /\ outFeeder.written
  /\ Len(fls) = 38
  /\ fls # FeederList(col, cnt)

\* C3: every part the splitter splits (quantity q > cnt/2) is left with
\* floor(q/2), the added entry has q - floor(q/2), both are at least 1 and
\* they add up to q.
C3_SplitCorrect ==
  pc = "split" =>
    \A k \in 1..nsplit :
      2 * QtyBefore(k) > cnt =>
        /\ QtyOf(col[k]) = QtyBefore(k) \div 2
        /\ Cardinality(AddedFor(k)) = 1
        /\ \A a \in AddedFor(k) :
             /\ QtyOf(adders[a]) = QtyBefore(k) - (QtyBefore(k) \div 2)
             /\ QtyOf(adders[a]) >= 1
             /\ QtyOf(col[k]) + QtyOf(adders[a]) = QtyBefore(k)
        /\ QtyOf(col[k]) >= 1

\* C4: in the feeder list written after the optimizer's fixpoint no two
\* entries on neighbouring feeders (Feeder numbers differing by 1) have the
\* same typeKey.
C4_NoNeighbours ==
  (pc = "done" /\ outFeeder.written) =>
    \A a, b \in 1..Len(outFeeder.rows) :
      outFeeder.rows[a][1] + 1 = outFeeder.rows[b][1]
        => outFeeder.rows[a][2] # outFeeder.rows[b][2]

\* C5: when the splitter has added entries and col holds at most 38
\* entries, every entry of the re-ranked col is in the feeder list, the
\* k-th ranked on slot P[k], and every part type is in the feeder list
\* (runs in which the splitter left an entry of quantity 0 are set aside).
C5_AllAssigned ==
  (/\ Distributed
   /\ adders # <<>>
   /\ Len(col) <= Len(l1_ptrn)
   /\ \A k \in 1..Len(col) : QtyOf(col[k]) >= 1) =>
    /\ Len(fls) = Len(col)
    /\ \A k \in 1..Len(col) :
         \E a \in 1..Len(fls) :
           fls[a] = Append(SortedByQtyDesc(col)[k], l1_ptrn[k])
    /\ \A k \in 1..Len(counted) :
         \E a \in 1..Len(fls) : KeyOf(fls[a]) = KeyOf(counted[k])

\* C6: when ingestion has failed, no output file is written.
C6_AbortOnFailure ==
  errPrinted =>
    /\ ~outBom.written
    /\ ~outParts.written
    /\ ~outFeeder.written

C8_AsStated ==
  (SplitDone \/ Distributed) =>
    \A k \in 1..Len(counted) :
      ~IsCandidate(k) => (col[k] = counted[k] /\ AddedFor(k) = {})

\* C8 amended: the splitter tests every aggregated part, candidate or not:
\* a part is split exactly when its quantity is above cnt/2.
C8_SplitsEveryPart ==
  (SplitDone \/ Distributed) =>
    \A k \in 1..Len(counted) :
      IF 2 * QtyBefore(k) > cnt
        THEN /\ QtyOf(col[k]) = QtyBefore(k) \div 2
             /\ Cardinality(AddedFor(k)) = 1
        ELSE /\ col[k] = counted[k]
             /\ AddedFor(k) = {}

\* C8 witness: a part outside the candidates has been split
C8_Witness ==
  /\ SplitDone
  /\ \E k \in 1..Len(counted) :
       /\ ~IsCandidate(k)
       /\ QtyOf(col[k]) < QtyBefore(k)
       /\ AddedFor(k) # {}

\* C9: the loop of optimizer passes ends by reaching a pass without a swap:
\* until such a pass is completed the loop has a next step to take.
C9_Terminates ==
  (pc \in {"optimize", "crashed"} /\ ~ZeroSwapPass) => ENABLED Next

\* C9, the other half: every swap leaves fewer collisions in the list than
\* there were, so the passes cannot swap for ever.
C9_SwapsRemoveCollisions ==
  [][(pc = "optimize" /\ fls' # fls) =>
       Cardinality({k \in Range(cnt - 1) : Collision(fls', k)})
         < Cardinality({k \in Range(cnt - 1) : Collision(fls, k)})]_vars

\* C10: a swap for a collision at position i reads and writes only
\* positions of the list, 0..cnt-1.
C10_InList ==
  CollisionAt =>
    /\ SwapPos(i)[1] \in Range(cnt)
    /\ SwapPos(i)[2] \in Range(cnt)
    /\ Len(fls) = cnt

=============================================================================
